---------------------------- MODULE Spec2Model ----------------------------
(***************************************************************************)
(* A model of GTNHIssueHelper (src/entrypoint.py): the crash-report        *)
(* locator (Helper._search_section), the CrashReport views, the mod-state  *)
(* line parser (InstalledMod.parse), the diagnostic heuristics             *)
(* (Helper.analyze) and the orchestrator (Helper.main).                    *)
(*                                                                         *)
(* Text is modelled at the granularity the code inspects it:               *)
(*  - a section of the issue form is a sequence of tokens, each token one  *)
(*    of the literals the code searches for (the crash-report marker,      *)
(*    'Is Modded', a newline) or one URL;                                  *)
(*  - the content of a crash report is the sequence of its lines           *)
(*    (str.splitlines), a line being its text or the fields of a mod-state *)
(*    table line.                                                          *)
(* Positions are 0-based, as in Python; -1 is str.find's "not found".      *)
(***************************************************************************)
EXTENDS Integers, Sequences, FiniteSets, TLC

(***************************************************************************)
(* Bounds of the model.                                                    *)
(***************************************************************************)
\* how many sections the "sections" input names
MaxSections == 2
\* how many inline sources the inline scan may collect before the model stops
\* following it
MaxInline == 3
\* how many lines the main stack trace of an analysed report has at most
MaxTrace == 3
\* how many lines follow the header of a mod-state table at most
MaxModLines == 3
\* how often the model follows an access to a CrashReport's lazy content
MaxFetch == 3

(***************************************************************************)
(* Generic helpers.                                                        *)
(***************************************************************************)
Range(s) == {s[i] : i \in 1..Len(s)}

SeqsUpTo(S, n) == UNION {[1..k -> S] : k \in 0..n}

RECURSIVE Join(_, _)
\* sep.join(lines)
Join(lines, sep) ==
    IF lines = <<>> THEN ""
    ELSE IF Len(lines) = 1 THEN lines[1]
    ELSE lines[1] \o sep \o Join(Tail(lines), sep)

RECURSIVE Flatten(_)
Flatten(ss) == IF ss = <<>> THEN <<>> ELSE Head(ss) \o Flatten(Tail(ss))

\* s[a:b] of Python for 0 <= a, 0 <= b
Slice(s, a, b) == SubSeq(s, a + 1, IF b > Len(s) THEN Len(s) ELSE b)

\* s.find(sub, start): the 0-based position of the first token sub at or after
\* start, -1 when there is none; a negative start counts from the end.
Find(s, sub, start) ==
    LET from == IF start >= 0 THEN start
                ELSE IF Len(s) + start > 0 THEN Len(s) + start ELSE 0
        hits == {i \in 0..(Len(s) - 1) : i >= from /\ s[i + 1] = sub}
    IN  IF hits = {} THEN -1 ELSE CHOOSE i \in hits : \A j \in hits : i <= j

(***************************************************************************)
(* Lines of a crash report.                                                *)
(***************************************************************************)
MARKER == "---- Minecraft Crash Report ----"
ISMODDED == "Is Modded: Definitely; Client brand changed to 'fml,forge'"
MAPCLIENT == "Launched Version: map_client.txt"
MAPSERVER == "Launched Version: map_server.txt"
JAVA8 == "Java Version: 1.8.0_311, Oracle Corporation"
JAVA17 == "Java Version: 17.0.1, Eclipse Adoptium"
STATES == "States: 'U' = Unloaded 'L' = Loaded 'D' = Disabled 'E' = Errored"
NPE1 == "java.lang.NullPointerException"
NPE2 == "at cpw.mods.fml.common.network.internal.FMLProxyPacket.func_148833_a(FMLProxyPacket.java:101)"
CHUNKIO == "at net.minecraftforge.common.chunkio.ChunkIOProvider.callStage2(ChunkIOProvider.java:41)"
CHUNKBUILD == "java.lang.RuntimeException: Chunk build failed"
ATLINE == "at net.minecraft.client.Minecraft.run(Minecraft.java:962)"
LOGLINE == "[12:00:00] [main/INFO] [FML/]: Forge Mod Loader version 7.99.40.1614"
HTMLLINE == "<!DOCTYPE html>"

\* a line that is no mod-state table line, by its text
T(text) == [t |-> text, status |-> <<>>, modid |-> "", version |-> "",
            modname |-> "", filename |-> ""]

\* the line "<status>\t<modid>{<version>} [<modname>] (<filename>)"
ModLine(status, modid, version, modname, filename) ==
    [t |-> "", status |-> status, modid |-> modid, version |-> version,
     modname |-> modname, filename |-> filename]

IsTableLine(line) == line.modid # ""

\* line.strip()
Text(line) ==
    IF IsTableLine(line)
    THEN Join(line.status, "") \o "\t" \o line.modid \o "{" \o line.version
         \o "} [" \o line.modname \o "] (" \o line.filename \o ")"
    ELSE line.t

\* the texts of the model that hold the substring 'States'
StatesTexts == {STATES, "Block States"}

\* 'States' in line
HasStates(line) == line.t \in StatesTexts \/ line.modname \in StatesTexts

\* sub in content, for the literals the code looks for
ContentHas(content, texts) == \E i \in 1..Len(content) : content[i].t \in texts

(***************************************************************************)
(* InstalledMod.parse                                                      *)
(***************************************************************************)
StatusChars == {"U", "L", "C", "H", "I", "J", "A", "D", "E"}

\* re.fullmatch of the mod-state grammar
MatchesGrammar(line) ==
    /\ IsTableLine(line)
    /\ line.status # <<>>
    /\ Range(line.status) \subseteq StatusChars
    /\ line.version # ""
    /\ line.modname # ""
    /\ line.filename # ""

\* the coremods table: the modids with a filename-reconstruction rule
coremods == {"CodeChickenCore", "PlayerAPI"}

_coremod_filename_convention_modid(line) ==
    line.modid \o "-" \o line.version \o ".jar"

InstalledMod(line, filename) ==
    [modid |-> line.modid, version |-> line.version, modname |-> line.modname,
     filename |-> filename,
     errored |-> "E" \in Range(line.status),
     disabled |-> "D" \in Range(line.status)]

\* InstalledMod.parse(line): err is the ValueError; rec is <<>> for None and
\* <<record>> otherwise
parse(line) ==
    IF ~MatchesGrammar(line) THEN [err |-> TRUE, rec |-> <<>>]
    ELSE IF line.modid \in {"FML", "Forge"} THEN [err |-> FALSE, rec |-> <<>>]
    ELSE IF line.filename = "minecraft.jar"
         THEN IF line.modid \notin coremods
              THEN [err |-> FALSE, rec |-> <<>>]
              ELSE [err |-> FALSE,
                    rec |-> <<InstalledMod(line,
                                 _coremod_filename_convention_modid(line))>>]
    ELSE [err |-> FALSE, rec |-> <<InstalledMod(line, line.filename)>>]

(***************************************************************************)
(* CrashReport: the derived views, as functions of the content.            *)
(***************************************************************************)
RECURSIVE TraceFrom(_)
\* the loop of main_stack_trace over the lines after the header
TraceFrom(lines) ==
    IF lines = <<>> THEN <<>>
    ELSE IF Text(Head(lines)) = "" THEN <<>>
    ELSE <<Text(Head(lines))>> \o TraceFrom(Tail(lines))

HeaderLines == 6

main_stack_trace(content) ==
    TraceFrom(SubSeq(content, HeaderLines + 1, Len(content)))

RECURSIVE ModListFrom(_, _)
\* the loop of mod_list: in_list is the flag of the code
ModListFrom(lines, in_list) ==
    IF lines = <<>> THEN <<>>
    ELSE IF HasStates(Head(lines)) THEN ModListFrom(Tail(lines), TRUE)
    ELSE IF in_list
         THEN LET parsed == parse(Head(lines))
              IN  IF parsed.err THEN <<>>
                  ELSE parsed.rec \o ModListFrom(Tail(lines), TRUE)
    ELSE ModListFrom(Tail(lines), FALSE)

mod_list(content) == ModListFrom(content, FALSE)

truncated(content) == ~ContentHas(content, {ISMODDED})

NoVersion == "None"

\* re.findall('Java Version: (\S+),', content)[0], None when there is no match
java_version(content) ==
    LET hits == {i \in 1..Len(content) : content[i].t \in {JAVA8, JAVA17}}
        first == CHOOSE i \in hits : \A j \in hits : i <= j
    IN  IF hits = {} THEN NoVersion
        ELSE IF content[first].t = JAVA8 THEN "1.8.0_311" ELSE "17.0.1"

\* v.startswith('1.'), for the versions of the model
StartsWithOneDot(v) == v \in {"1.8.0_311"}

\* is_recent_java, of the value of java_version
RecentVersion(v) == v # NoVersion /\ ~StartsWithOneDot(v)

is_recent_java(content) == RecentVersion(java_version(content))

\* the branches of side, of the outcomes of its tests
SideOf(has_client, has_server, recent) ==
    IF has_client THEN IF recent THEN "CLIENT_JAVA9" ELSE "CLIENT"
    ELSE IF has_server THEN IF recent THEN "SERVER_JAVA9" ELSE "SERVER"
    ELSE "BOTH"

\* side, of a content that every read returns
side(content) ==
    SideOf(ContentHas(content, {MAPCLIENT}), ContentHas(content, {MAPSERVER}),
           is_recent_java(content))

(***************************************************************************)
(* Helper.analyze                                                          *)
(***************************************************************************)
AnalysisHeader(url) == "# Primitive Automated Analysis of Crash Report " \o url
TRUNCATED_WARNING == "CRASH REPORT IS TRUNCATED. This will not help to get your problem fixed!!!"
NPE_REMARK == "This crash report is near useless. Try post fml-client-latest.log instead."
CORRUPTION_REMARK == "This crash report suggests world corruption. Try restore from a backup."
ANGELICA_REMARK == "Possibly an Angelica problem. Try remove this mod and see if this fixes your problem."
MISSING_OPEN == "<details><summary>Missing mods</summary>"
ADDED_OPEN == "<details><summary>Added mods</summary>"
DETAILS_CLOSE == "</details>"

StackBlock(trace) ==
    "<details><summary>Stacktrace</summary>" \o Join(trace, "\n") \o "</details>"

\* the filenames of the model that hold, lower-cased, the given word
HealerFiles == {"Healer-1.0.jar"}
CodeChickenLibFiles == {"CodeChickenLib-1.1.5.jar"}
Lwjgl3ifyFiles == {"lwjgl3ify-1.5.7.jar"}

\* the filenames the official mod list of the model is drawn from
OfficialFiles == {"GregTech-5.09.jar", "CodeChickenCore-1.0.jar"}
                    \cup HealerFiles \cup CodeChickenLibFiles \cup Lwjgl3ifyFiles

\* cr.main_stack_trace[:2] == [NPE, FMLProxyPacket frame]
IsNpeSignature(trace) == Slice(trace, 0, 2) = <<NPE1, NPE2>>

\* any('ChunkIOProvider' in e for e in cr.main_stack_trace)
HasChunkIO(trace) == \E i \in 1..Len(trace) : trace[i] \in {CHUNKIO}

\* TerminalRule with a fault: the two early checks in the other order
TerminalRuleChunkIOFirst(trace) ==
    IF HasChunkIO(trace) THEN <<CORRUPTION_REMARK>>
    ELSE IF IsNpeSignature(trace) THEN <<NPE_REMARK>>
    ELSE <<>>

\* the early checks that return: the remark of the first that matches, <<>>
\* when none does
TerminalRule(trace) ==
    IF IsNpeSignature(trace) THEN <<NPE_REMARK>>
    ELSE IF HasChunkIO(trace) THEN <<CORRUPTION_REMARK>>
    ELSE <<>>

\* SkippedMissing with a fault: the 'healer' test is lost
SkippedMissingNoHealer(filename, content) ==
    \/ filename \in CodeChickenLibFiles
    \/ (~is_recent_java(content) /\ filename \in Lwjgl3ifyFiles)

\* the two "continue" tests of the loop over missing
SkippedMissing(filename, content) ==
    \/ filename \in HealerFiles \/ filename \in CodeChickenLibFiles
    \/ (~is_recent_java(content) /\ filename \in Lwjgl3ifyFiles)

RECURSIVE MissingLines(_, _)
\* the loop over missing, in the order the set is iterated in
MissingLines(order, content) ==
    IF order = <<>> THEN <<>>
    ELSE (IF SkippedMissing(Head(order), content) THEN <<>>
          ELSE <<"* " \o Head(order)>>) \o MissingLines(Tail(order), content)

\* cr_mods = {mod.filename: mod for mod in cr.mod_list}: the last record of a
\* filename wins
cr_mods(mods, filename) ==
    LET hits == {i \in 1..Len(mods) : mods[i].filename = filename}
    IN  mods[CHOOSE i \in hits : \A j \in hits : j <= i]

RECURSIVE AddedLines(_, _)
AddedLines(order, mods) ==
    IF order = <<>> THEN <<>>
    ELSE <<"* " \o Head(order) \o " (" \o cr_mods(mods, Head(order)).modname \o ")">>
         \o AddedLines(Tail(order), mods)

\* the orders a Python set may be iterated in
Orders(S) == {o \in [1..Cardinality(S) -> S] : Range(o) = S}

MissingBlocks(missing, content) ==
    IF missing = {} THEN {<<>>}
    ELSE {<<MISSING_OPEN>> \o MissingLines(o, content) \o <<DETAILS_CLOSE>> :
            o \in Orders(missing)}

AddedBlocks(added, mods) ==
    IF added = {} THEN {<<>>}
    ELSE {<<ADDED_OPEN>> \o AddedLines(o, mods) \o <<DETAILS_CLOSE>> :
            o \in Orders(added)}

\* Helper.get_mod_list: what the resolver gives, [] when it raised
get_mod_list(official) == IF official.ok THEN official.files ELSE {}

\* Helper.analyze(cr) for a report of this url and content, official being what
\* get_official_mods does when it is called: the lines appended to _out,
\* whether an exception left analyze, and whether the resolver was called.
\* One result for each order the sets missing and added may be iterated in.
analyze(url, content, official) ==
    LET trace == main_stack_trace(content)
        early == <<AnalysisHeader(url)>>
                 \o (IF truncated(content) THEN <<TRUNCATED_WARNING>> ELSE <<>>)
    IN  IF TerminalRule(trace) # <<>>
        THEN {[lines |-> early \o TerminalRule(trace), raised |-> FALSE,
               resolved |-> FALSE]}
        ELSE IF trace = <<>>
        \* cr.main_stack_trace[0]: IndexError
        THEN {[lines |-> early, raised |-> TRUE, resolved |-> FALSE]}
        ELSE
        LET diag == early
                    \o (IF trace[1] = CHUNKBUILD THEN <<ANGELICA_REMARK>> ELSE <<>>)
                    \o <<StackBlock(trace)>>
            mods == mod_list(content)
            cr_mods_set == {mods[i].filename : i \in 1..Len(mods)}
            base_mods_set == get_mod_list(official)
            missing == base_mods_set \ cr_mods_set
            added == cr_mods_set \ base_mods_set
        IN  IF get_mod_list(official) = {}
            THEN {[lines |-> diag, raised |-> FALSE, resolved |-> TRUE]}
            ELSE {[lines |-> diag \o m \o a, raised |-> FALSE, resolved |-> TRUE] :
                    m \in MissingBlocks(missing, content),
                    a \in AddedBlocks(added, mods)}

(***************************************************************************)
(* The URLs of the model and urllib.parse.urlparse on them: the path is    *)
(* the sequence of its segments, <<"p", "ID", "1">> for "/p/ID/1".         *)
(***************************************************************************)
U_PASTEBIN == "https://pastebin.com/abc123"
U_PASTEBIN_QUERY == "https://pastebin.com/abc123?x=1"
U_GITHUB == "https://github.com/user/GT-New-Horizons-Modpack/files/1/crash.txt"
U_GIST == "https://gist.github.com/u/id"
U_PASTEEE == "https://paste.ee/p/ID/1"
U_MCLOGS == "https://mclo.gs/AbCdEfG"
U_UBUNTU == "https://paste.ubuntu.com/p/xyz"
U_OTHER == "https://example.com/crash.txt"

Urls == {U_PASTEBIN, U_PASTEBIN_QUERY, U_GITHUB, U_GIST, U_PASTEEE, U_MCLOGS,
         U_UBUNTU, U_OTHER}

Parsed(hostname, path, query) ==
    [scheme |-> "https", hostname |-> hostname, path |-> path, query |-> query]

urlparse(url) ==
    CASE url = U_PASTEBIN -> Parsed("pastebin.com", <<"abc123">>, "")
      [] url = U_PASTEBIN_QUERY -> Parsed("pastebin.com", <<"abc123">>, "x=1")
      [] url = U_GITHUB ->
            Parsed("github.com",
                   <<"user", "GT-New-Horizons-Modpack", "files", "1", "crash.txt">>, "")
      [] url = U_GIST -> Parsed("gist.github.com", <<"u", "id">>, "")
      [] url = U_PASTEEE -> Parsed("paste.ee", <<"p", "ID", "1">>, "")
      [] url = U_MCLOGS -> Parsed("mclo.gs", <<"AbCdEfG">>, "")
      [] url = U_UBUNTU -> Parsed("paste.ubuntu.com", <<"p", "xyz">>, "")
      [] OTHER -> Parsed("example.com", <<"crash.txt">>, "")

RECURSIVE PathStr(_)
\* the path as a string
PathStr(segs) == IF segs = <<>> THEN "" ELSE "/" \o Head(segs) \o PathStr(Tail(segs))

\* not parsed.path or '/' in parsed.path[1:]
BadSinglePath(path) == path = <<>> \/ Len(path) > 1

\* re.fullmatch('/[^/]+/GT-New-Horizons-Modpack/files/.+', parsed.path)
IsModpackFilesPath(path) ==
    /\ Len(path) >= 4
    /\ path[1] # ""
    /\ path[2] = "GT-New-Horizons-Modpack"
    /\ path[3] = "files"

\* re.fullmatch('/p/[^/]+/.+', parsed.path)
IsPasteEePath(path) == Len(path) >= 3 /\ path[1] = "p" /\ path[2] # ""

UBUNTU_REFUSAL == "Please refrain from posting crash reports to paste.ubuntu.com. They might require login to be viewed and our automated analysis tool (like this) cannot read their content."

\* The chain of host tests of _search_section: what becomes of one url.
\*   kind "raw": download_url is fetched;  kind "refused": the refusal line is
\*   appended to _out;  otherwise the url is skipped with the annotation note.
Resolve(url) ==
    LET parsed == urlparse(url)
        skip(kind, note) == [kind |-> kind, download_url |-> "", note |-> note]
        raw(download_url) == [kind |-> "raw", download_url |-> download_url, note |-> ""]
    IN  IF parsed.hostname = "pastebin.com"
        THEN IF parsed.query # "" \/ BadSinglePath(parsed.path)
             THEN skip("suspicious", "warning: Suspicious pastebin.com link: " \o url)
             ELSE raw(parsed.scheme \o "://" \o parsed.hostname \o "/raw"
                      \o PathStr(parsed.path))
        ELSE IF parsed.hostname = "github.com" /\ IsModpackFilesPath(parsed.path)
        THEN IF parsed.query # ""
             THEN skip("suspicious", "warning: Suspicious github.com link: " \o url)
             ELSE raw(url)
        ELSE IF parsed.hostname = "gist.github.com"
        THEN skip("gist", "warning: Gist API not implemented for " \o url)
        ELSE IF parsed.hostname = "paste.ee"
        THEN IF parsed.query # "" \/ ~IsPasteEePath(parsed.path)
             THEN skip("suspicious", "warning: Suspicious paste.ee link: " \o url)
             ELSE raw(parsed.scheme \o "://" \o parsed.hostname \o "/d"
                      \o PathStr(Tail(parsed.path)))
        ELSE IF parsed.hostname = "mclo.gs"
        THEN IF parsed.query # "" \/ BadSinglePath(parsed.path)
             THEN skip("suspicious", "warning: Suspicious mclo.gs link: " \o url)
             ELSE raw("https://api.mclo.gs/1/raw" \o PathStr(parsed.path))
        ELSE IF parsed.hostname = "paste.ubuntu.com"
        THEN skip("refused", "")
        ELSE skip("unknown", "notice: Unknown url. Probably ")

(***************************************************************************)
(* Sections of the issue form.                                             *)
(***************************************************************************)
IS_MODDED == "Is Modded"
NL == "\n"

\* re.findall of the two link shapes over the section: the urls, in order
RECURSIVE FindUrls(_)
FindUrls(cr_data) ==
    IF cr_data = <<>> THEN <<>>
    ELSE (IF Head(cr_data) \in Urls THEN <<Head(cr_data)>> ELSE <<>>)
         \o FindUrls(Tail(cr_data))

\* the section texts a run of the model may be given
SectionTexts ==
    { <<>>,
      <<MARKER, NL>>,
      <<MARKER, IS_MODDED, NL>>,
      <<MARKER, NL, IS_MODDED, NL, MARKER, IS_MODDED>>,
      <<U_PASTEBIN>>,
      <<U_PASTEBIN, NL, U_PASTEBIN>>,
      <<U_PASTEBIN, U_MCLOGS>>,
      <<U_UBUNTU>>,
      <<U_PASTEBIN_QUERY, U_GIST, U_OTHER>>,
      <<MARKER, IS_MODDED, NL, U_GITHUB>> }

(***************************************************************************)
(* What the network may answer.                                            *)
(***************************************************************************)
Header ==
    <<T(MARKER), T("// Oops."), T(""), T("Time: 1/1/24 12:00 PM"),
      T("Description: Unexpected error"), T("")>>

ML_GREGTECH ==
    ModLine(<<"U", "C", "H", "I", "J", "A">>, "gregtech", "MC1710", "GregTech",
            "GregTech-5.09.jar")
ML_NEI ==
    ModLine(<<"U", "C", "H", "I", "J", "A">>, "NotEnoughItems", "2.3", "Not Enough Items",
            "NotEnoughItems-2.3.jar")
ML_BLOCKSTATES ==
    ModLine(<<"U", "C", "E">>, "blockstates", "1.0", "Block States", "blockstates-1.0.jar")
ML_FML ==
    ModLine(<<"U", "C", "H", "I", "J", "A">>, "FML", "7.10.99.99", "Forge Mod Loader",
            "forge-1.7.10.jar")
ML_CODECHICKENCORE ==
    ModLine(<<"U", "C", "H", "I", "J", "A">>, "CodeChickenCore", "1.0", "CodeChicken Core",
            "minecraft.jar")
ML_MCP ==
    ModLine(<<"U", "C", "H", "I", "J", "A">>, "mcp", "9.05", "Minecraft Coder Pack",
            "minecraft.jar")
ML_BADSTATUS ==
    ModLine(<<"X">>, "broken", "1.0", "Broken", "broken.jar")
ML_DISABLED ==
    ModLine(<<"U", "D">>, "gregtech", "MC1710", "GregTech (disabled copy)",
            "GregTech-5.09.jar")

\* a complete report of a modern-Java client
REPORT_FULL ==
    Header \o <<T(CHUNKBUILD), T(ATLINE), T(""), T(ISMODDED), T(MAPCLIENT), T(JAVA17),
                T(STATES), ML_FML, ML_GREGTECH, ML_NEI, T("")>>
\* a report cut off inside its header
REPORT_SHORT == <<T(MARKER), T("// Oops.")>>
LOG_TEXT == <<T(LOGLINE), T("[12:00:01] [main/INFO] [FML/]: Done")>>
HTML_TEXT == <<T(HTMLLINE)>>

\* the texts a fetch of the locator may be answered with
FetchedTexts == {REPORT_FULL, REPORT_SHORT, LOG_TEXT, HTML_TEXT}

HTTP_OK == 200

\* requests.get(download_url): a transport-level exception, or a response
FetchOutcomes ==
    {[exc |-> TRUE, status_code |-> 0, text |-> <<>>],
     [exc |-> FALSE, status_code |-> 404, text |-> <<>>]}
    \cup {[exc |-> FALSE, status_code |-> HTTP_OK, text |-> t] : t \in FetchedTexts}

\* content.startswith('---- Minecraft Crash Report ----')
StartsWithMarker(text) == text # <<>> /\ text[1].t = MARKER

\* re.match of the log-line pattern at the start of content
LooksLikeLog(text) == text # <<>> /\ text[1].t \in {LOGLINE}

\* get_official_mods: it raises (ok FALSE), or gives the mods of the manifest
Official(files) == [ok |-> TRUE, files |-> files]
OfficialFailure == [ok |-> FALSE, files |-> {}]

Sides == {"CLIENT", "CLIENT_JAVA9", "SERVER", "SERVER_JAVA9", "BOTH"}

CrashReport(url, content) == [url |-> url, content |-> content]

(***************************************************************************)
(* State.                                                                  *)
(***************************************************************************)
VARIABLES
    sections,       \* Helper._sections, each as its text _issue_form_data[key]
                    \* (every configured key is a key of the form data)
    resolver_env,   \* what get_official_mods may do when it is called in this run
    pc,             \* where the run is
    sec,            \* the section crash_reports is searching
    istart,         \* _search_section: istart
    ret,            \* _search_section: ret
    all_urls,       \* _search_section: all_urls
    pending,        \* _search_section: the matches of re.findall still to visit
    crash_reports,  \* Helper.crash_reports, while it is being built and after
    idx,            \* main: the report the loop is at (1-based)
    out,            \* Helper._out
    sink,           \* what was handed to set_output / print
    emitted,        \* whether the hand-over took place
    mods_cache,     \* lru_cache of get_official_mods, by side (one version a run)
    log,            \* the annotations and log records, in order
    fetched,        \* history: the requests.get calls of the locator
    analysis,       \* history: what analyze did for each report it was given
    r_lazy,         \* a CrashReport: whether it has _content_func
    r_content,      \* a CrashReport: _content, <<>> while the attribute is not set
    r_views,        \* a CrashReport: the cached_property values, <<>> while not set
    r_fetches,      \* history: the calls of _content_func
    r_returned      \* history: the texts the content property returned

pipeline_vars ==
    <<sections, resolver_env, pc, sec, istart, ret, all_urls, pending, crash_reports,
      idx, out, sink, emitted, mods_cache, log, fetched, analysis>>
report_vars == <<r_lazy, r_content, r_views, r_fetches, r_returned>>
vars == <<pipeline_vars, report_vars>>

NoViews ==
    [main_stack_trace |-> <<>>, mod_list |-> <<>>, truncated |-> <<>>,
     java_version |-> <<>>, side |-> <<>>]

\* no CrashReport under study
ReportIdle ==
    /\ r_lazy = FALSE
    /\ r_content = <<>>
    /\ r_views = NoViews
    /\ r_fetches = 0
    /\ r_returned = {}

\* Helper.__init__, and the caches of a fresh process
HelperInit ==
    /\ sec = 1
    /\ istart = -1
    /\ ret = <<>>
    /\ all_urls = {}
    /\ pending = <<>>
    /\ crash_reports = <<>>
    /\ idx = 1
    /\ out = <<>>
    /\ sink = <<>>
    /\ emitted = FALSE
    /\ mods_cache = [s \in Sides |-> <<>>]
    /\ log = <<>>
    /\ fetched = <<>>
    /\ analysis = <<>>

\* the resolver of a run of the whole pipeline: it fails, or knows this manifest
PipelineResolver ==
    {OfficialFailure, Official({"GregTech-5.09.jar", "lwjgl3ify-1.5.7.jar"})}

Init ==
    /\ sections \in {s \in SeqsUpTo(SectionTexts, MaxSections) : s # <<>>}
    /\ resolver_env = PipelineResolver
    /\ pc = "locate"
    /\ HelperInit
    /\ ReportIdle

(***************************************************************************)
(* Helper.crash_reports and Helper._search_section                         *)
(***************************************************************************)
\* _search_section is entered for section sec: the test that guards the inline
\* scan, the first find of the marker, and the matches of re.findall.
SearchSection ==
    /\ pc = "locate"
    /\ LET cr_data == sections[sec]
       IN  /\ ret' = <<>>
           /\ all_urls' = {}
           /\ pending' = FindUrls(cr_data)
           /\ IF MARKER \in Range(cr_data) /\ IS_MODDED \in Range(cr_data)
              THEN /\ istart' = Find(cr_data, MARKER, 0)
                   /\ pc' = "inline"
              ELSE /\ istart' = -1
                   /\ pc' = "links"
    /\ UNCHANGED <<sections, resolver_env, sec, crash_reports, idx, out, sink, emitted,
                   mods_cache, log, fetched, analysis, report_vars>>

\* One evaluation of "while istart != -1" and, when it holds, of the loop body.
\* The model follows the loop until ret holds MaxInline sources.
InlineScan ==
    /\ pc = "inline"
    /\ istart # -1 => Len(ret) < MaxInline
    /\ LET cr_data == sections[sec]
           moddedline == Find(cr_data, IS_MODDED, istart)
           found == Find(cr_data, NL, moddedline)
           iend == IF found = -1 THEN Len(cr_data) ELSE found
       IN  IF istart # -1
           THEN /\ ret' = Append(ret, CrashReport("inline " \o ToString(Len(ret) + 1),
                                                  Slice(cr_data, istart, iend)))
                /\ istart' = Find(cr_data, MARKER, istart)
                /\ pc' = "inline"
           ELSE /\ pc' = "links"
                /\ UNCHANGED <<ret, istart>>
    /\ UNCHANGED <<sections, resolver_env, sec, all_urls, pending, crash_reports, idx,
                   out, sink, emitted, mods_cache, log, fetched, analysis, report_vars>>

\* One iteration of the loop over the matches of re.findall.
LinkScan ==
    /\ pc = "links"
    /\ pending # <<>>
    /\ pending' = Tail(pending)
    /\ LET url == Head(pending)
           res == Resolve(url)
       IN  IF url \in all_urls
           THEN /\ log' = Append(log, "debug: Duplicate url: " \o url)
                /\ UNCHANGED <<all_urls, ret, out, fetched, pc>>
           ELSE
           /\ all_urls' = all_urls \cup {url}
           /\ IF res.kind = "refused"
              THEN /\ out' = Append(out, UBUNTU_REFUSAL)
                   /\ UNCHANGED <<ret, log, fetched, pc>>
              ELSE IF res.kind # "raw"
              THEN /\ log' = Append(log, res.note)
                   /\ UNCHANGED <<ret, out, fetched, pc>>
              ELSE
              /\ fetched' = Append(fetched, [url |-> url, download_url |-> res.download_url])
              /\ \E req \in FetchOutcomes :
                    IF req.exc
                    \* the exception leaves _search_section, crash_reports and main
                    THEN /\ pc' = "crashed"
                         /\ UNCHANGED <<ret, out, log>>
                    ELSE IF req.status_code # HTTP_OK
                    THEN /\ log' = Append(log, "warning: Failed to download url: "
                                                \o res.download_url)
                         /\ out' = Append(out, "Failed to download url: " \o res.download_url
                                               \o ". Original file link: " \o url)
                         /\ UNCHANGED <<ret, pc>>
                    ELSE IF StartsWithMarker(req.text)
                    THEN /\ ret' = Append(ret, CrashReport(res.download_url, req.text))
                         /\ UNCHANGED <<out, log, pc>>
                    ELSE IF LooksLikeLog(req.text)
                    THEN /\ log' = Append(log, "notice: Found potential log in " \o url)
                         /\ UNCHANGED <<ret, out, pc>>
                    ELSE UNCHANGED <<ret, out, log, pc>>
    /\ UNCHANGED <<sections, resolver_env, sec, istart, crash_reports, idx, sink, emitted,
                   mods_cache, analysis, report_vars>>

\* "return list(ret)", "ret.extend(...)" and the step to the next section; after
\* the last section crash_reports is complete and main goes on.
SectionDone ==
    /\ pc = "links"
    /\ pending = <<>>
    /\ crash_reports' = crash_reports \o ret
    /\ IF sec < Len(sections)
       THEN sec' = sec + 1 /\ pc' = "locate"
       ELSE sec' = sec /\ pc' = "main"
    /\ UNCHANGED <<sections, resolver_env, istart, ret, all_urls, pending, idx, out, sink,
                   emitted, mods_cache, log, fetched, analysis, report_vars>>

(***************************************************************************)
(* Helper.main                                                             *)
(***************************************************************************)
\* "if not self.crash_reports: return", else the 'Found ...' line
MainStart ==
    /\ pc = "main"
    /\ IF crash_reports = <<>>
       THEN pc' = "done" /\ out' = out
       ELSE /\ pc' = "analyze"
            /\ out' = Append(out, "Found " \o ToString(Len(crash_reports))
                                  \o " linked crash report(s)")
    /\ idx' = 1
    /\ UNCHANGED <<sections, resolver_env, sec, istart, ret, all_urls, pending,
                   crash_reports, sink, emitted, mods_cache, log, fetched, analysis,
                   report_vars>>

\* AfterAnalyzeException with a fault: the exception is not caught
AfterAnalyzeExceptionUncaught == "crashed"

\* "except Exception: logging.error(...); continue": where main is afterwards
AfterAnalyzeException == "analyze"

\* One iteration of the loop of main: analyze(cr) inside its try.
Analyze ==
    /\ pc = "analyze"
    /\ idx <= Len(crash_reports)
    /\ LET cr == crash_reports[idx]
           s == side(cr.content)
           answers == IF mods_cache[s] # <<>> THEN {Official(mods_cache[s][1])}
                      ELSE resolver_env
       IN  \E official \in answers : \E r \in analyze(cr.url, cr.content, official) :
             /\ out' = out \o r.lines
             /\ analysis' = Append(analysis,
                    [lines |-> r.lines, raised |-> r.raised, resolved |-> r.resolved,
                     base |-> IF r.resolved THEN get_mod_list(official) ELSE {}])
             /\ mods_cache' = IF r.resolved /\ official.ok
                              THEN [mods_cache EXCEPT ![s] = <<official.files>>]
                              ELSE mods_cache
             /\ log' = IF r.raised
                       THEN Append(log, "error: error analyzing cr " \o ToString(idx - 1))
                       ELSE IF r.resolved /\ ~official.ok
                       THEN Append(log, "error: error fetching cr mod list")
                       ELSE log
             /\ pc' = IF r.raised THEN AfterAnalyzeException ELSE "analyze"
    /\ idx' = idx + 1
    /\ UNCHANGED <<sections, resolver_env, sec, istart, ret, all_urls, pending,
                   crash_reports, sink, emitted, fetched, report_vars>>

\* After the loop: set_output('comments', '\n'.join(_out)), or each line printed.
Emit ==
    /\ pc = "analyze"
    /\ idx > Len(crash_reports)
    /\ sink' = out
    /\ emitted' = TRUE
    /\ pc' = "done"
    /\ UNCHANGED <<sections, resolver_env, sec, istart, ret, all_urls, pending,
                   crash_reports, idx, out, mods_cache, log, fetched, analysis,
                   report_vars>>

Next ==
    \/ SearchSection
    \/ InlineScan
    \/ LinkScan
    \/ SectionDone
    \/ MainStart
    \/ Analyze
    \/ Emit

Spec == Init /\ [][Next]_vars

(***************************************************************************)
(* The analysis of one located report, over many reports and manifests.    *)
(***************************************************************************)
TraceTexts == {NPE1, NPE2, CHUNKIO, CHUNKBUILD}

RECURSIVE Lines(_)
\* the lines with these texts
Lines(texts) == IF texts = <<>> THEN <<>> ELSE <<T(Head(texts))>> \o Lines(Tail(texts))

\* what follows the stack trace: 'Is Modded' or not, the side marker or none,
\* the Java version or none, a mod-state table or none
DetailChoices ==
    {<<>>, <<T(ISMODDED)>>} \X {<<>>, <<T(MAPCLIENT)>>, <<T(MAPSERVER)>>}
    \X {<<>>, <<T(JAVA8)>>, <<T(JAVA17)>>}
    \X {<<>>, <<T(STATES), ML_FML, ML_GREGTECH, ML_NEI, ML_CODECHICKENCORE, T("")>>}

AnalyzedContents ==
    {REPORT_SHORT}
    \cup {Header \o Lines(tr) \o <<T("")>> \o d[1] \o d[2] \o d[3] \o d[4] :
            tr \in SeqsUpTo(TraceTexts, MaxTrace), d \in DetailChoices}

\* the manifests of the model: none (the resolver fails), an empty one, one
\* whose only mod is never listed, one of two mods, and one of all mods
AnalyzedManifests ==
    {OfficialFailure, Official({}), Official(HealerFiles), Official(OfficialFiles),
     Official({"GregTech-5.09.jar", "lwjgl3ify-1.5.7.jar"})}

\* main has located one report behind one link of one section
InitAnalyze ==
    /\ sections = << <<U_PASTEBIN>> >>
    /\ resolver_env \in {{o} : o \in AnalyzedManifests}
    /\ pc = "main"
    /\ sec = 1
    /\ istart = -1
    /\ all_urls = {U_PASTEBIN}
    /\ pending = <<>>
    /\ \E content \in AnalyzedContents :
         /\ ret = <<CrashReport(Resolve(U_PASTEBIN).download_url, content)>>
         /\ crash_reports = ret
    /\ idx = 1
    /\ out = <<>>
    /\ sink = <<>>
    /\ emitted = FALSE
    /\ mods_cache = [s \in Sides |-> <<>>]
    /\ log = <<>>
    /\ fetched = <<[url |-> U_PASTEBIN, download_url |-> Resolve(U_PASTEBIN).download_url]>>
    /\ analysis = <<>>
    /\ ReportIdle

NextAnalyze ==
    \/ MainStart
    \/ Analyze
    \/ Emit

SpecAnalyze == InitAnalyze /\ [][NextAnalyze]_vars

(***************************************************************************)
(* One CrashReport object: the content property and the cached views.      *)
(* An access to a view that is already cached changes nothing, and is a    *)
(* stuttering step.                                                        *)
(***************************************************************************)
\* the lines a mod-state table of the model is made of
TableLines ==
    {T(STATES), T(ATLINE), ML_GREGTECH, ML_BLOCKSTATES, ML_FML, ML_CODECHICKENCORE,
     ML_MCP, ML_BADSTATUS}

\* contents with a table after its header, and without a header
TableContents ==
    {pre \o rows : pre \in {<<>>, <<T(STATES)>>, <<ML_DISABLED, T(STATES)>>},
                   rows \in SeqsUpTo(TableLines, MaxModLines)}

\* the contents a CrashReport is constructed with
ReportContents == TableContents \cup {REPORT_FULL, REPORT_SHORT}

\* what the fetch function of a lazy CrashReport may return
LazyTexts == {REPORT_FULL, REPORT_SHORT}

\* CrashReport.__init__, with a text or with a fetch function
InitReport ==
    /\ sections = <<>>
    /\ resolver_env = {}
    /\ pc = "report"
    /\ HelperInit
    /\ r_views = NoViews
    /\ r_fetches = 0
    /\ r_returned = {}
    /\ \/ r_lazy = FALSE /\ r_content \in {<<c>> : c \in ReportContents}
       \/ r_lazy = TRUE /\ r_content = <<>>

\* what one evaluation of self.content may return
Reads == IF r_lazy THEN LazyTexts ELSE {r_content[1]}

\* the content property was evaluated n times, returning texts, last at the end
DidRead(n, texts, last) ==
    /\ r_content' = <<last>>
    /\ r_fetches' = r_fetches + (IF r_lazy THEN n ELSE 0)
    /\ r_returned' = r_returned \cup texts

\* a view computed from one read c
CacheView(name, c, value) ==
    /\ r_views' = [r_views EXCEPT ![name] = <<value>>]
    /\ DidRead(1, {c}, c)

AccessContent ==
    /\ pc = "report"
    /\ r_fetches < MaxFetch
    /\ \E c \in Reads : DidRead(1, {c}, c)
    /\ UNCHANGED <<r_lazy, r_views, pipeline_vars>>

AccessMainStackTrace ==
    /\ pc = "report"
    /\ r_fetches < MaxFetch
    /\ r_views.main_stack_trace = <<>>
    /\ \E c \in Reads : CacheView("main_stack_trace", c, main_stack_trace(c))
    /\ UNCHANGED <<r_lazy, pipeline_vars>>

AccessModList ==
    /\ pc = "report"
    /\ r_fetches < MaxFetch
    /\ r_views.mod_list = <<>>
    /\ \E c \in Reads : CacheView("mod_list", c, mod_list(c))
    /\ UNCHANGED <<r_lazy, pipeline_vars>>

AccessTruncated ==
    /\ pc = "report"
    /\ r_fetches < MaxFetch
    /\ r_views.truncated = <<>>
    /\ \E c \in Reads : CacheView("truncated", c, truncated(c))
    /\ UNCHANGED <<r_lazy, pipeline_vars>>

AccessJavaVersion ==
    /\ pc = "report"
    /\ r_fetches < MaxFetch
    /\ r_views.java_version = <<>>
    /\ \E c \in Reads : CacheView("java_version", c, java_version(c))
    /\ UNCHANGED <<r_lazy, pipeline_vars>>

\* side reads the content for 'map_client.txt' (c1), then for 'map_server.txt'
\* (c2), and is_recent_java reads it (cj) when java_version is not cached yet
AccessSide ==
    /\ pc = "report"
    /\ r_fetches < MaxFetch
    /\ r_views.side = <<>>
    /\ \E c1 \in Reads, c2 \in Reads, cj \in Reads :
         LET has_client == ContentHas(c1, {MAPCLIENT})
             has_server == ContentHas(c2, {MAPSERVER})
             computes_java == (has_client \/ has_server) /\ r_views.java_version = <<>>
             version == IF r_views.java_version = <<>> THEN java_version(cj)
                        ELSE r_views.java_version[1]
         IN  /\ r_views' = [r_views EXCEPT
                              !.side = <<SideOf(has_client, has_server,
                                                RecentVersion(version))>>,
                              !.java_version = IF computes_java THEN <<version>> ELSE @]
             /\ DidRead((IF has_client THEN 1 ELSE 2) + (IF computes_java THEN 1 ELSE 0),
                        {c1} \cup (IF has_client THEN {} ELSE {c2})
                             \cup (IF computes_java THEN {cj} ELSE {}),
                        IF computes_java THEN cj ELSE IF has_client THEN c1 ELSE c2)
    /\ UNCHANGED <<r_lazy, pipeline_vars>>

NextReport ==
    \/ AccessContent
    \/ AccessMainStackTrace
    \/ AccessModList
    \/ AccessTruncated
    \/ AccessJavaVersion
    \/ AccessSide

SpecReport == InitReport /\ [][NextReport]_vars

(***************************************************************************)
(* Claims about the locator and the orchestrator (specification Spec).     *)
(***************************************************************************)
MarkerPositions(cr_data) == {i \in 0..(Len(cr_data) - 1) : cr_data[i + 1] = MARKER}

\* each marker is followed by an 'Is Modded'
EachMarkerFollowed(cr_data) ==
    \A p \in MarkerPositions(cr_data) : Find(cr_data, IS_MODDED, p) # -1

\* the 0-based position of the i-th marker
NthMarker(cr_data, i) ==
    CHOOSE p \in MarkerPositions(cr_data) :
        Cardinality({q \in MarkerPositions(cr_data) : q < p}) = i - 1

\* the inline sources the claim describes
ExpectedInline(cr_data) ==
    [i \in 1..Cardinality(MarkerPositions(cr_data)) |->
        LET p == NthMarker(cr_data, i)
            eol == Find(cr_data, NL, Find(cr_data, IS_MODDED, p))
        IN  CrashReport("inline " \o ToString(i),
                        Slice(cr_data, p, IF eol = -1 THEN Len(cr_data) ELSE eol))]

\* C1: the inline scan of a section with k markers, each followed by an
\* 'Is Modded', collects the k sources 'inline 1' .. 'inline k', the i-th from
\* the i-th marker to the end of the line of the next 'Is Modded', and no more:
\* while it runs ret is a prefix of these k sources, and when the loop is left
\* ret is all of them.
C1_InlineScanExact ==
    (pc = "inline" /\ EachMarkerFollowed(sections[sec])) =>
        LET expected == ExpectedInline(sections[sec])
        IN  /\ Len(ret) <= Len(expected)
            /\ ret = SubSeq(expected, 1, Len(ret))
            /\ (istart = -1 => ret = expected)

\* C3: once analyze has raised for a report, the run is not aborted, the lines of
\* every analysed report (the one that raised included) are the end of _out in
\* order, the reports are passed to analyze one after the other, and a finished
\* run has analysed all of them and handed all of _out to the sink.
C3_AnalyzeExceptionTolerated ==
    (\E k \in 1..Len(analysis) : analysis[k].raised) =>
        LET appended == Flatten([k \in 1..Len(analysis) |-> analysis[k].lines])
        IN  /\ pc \in {"analyze", "done"}
            /\ Len(analysis) = idx - 1
            /\ \A k \in 1..Len(analysis) :
                 analysis[k].lines[1] = AnalysisHeader(crash_reports[k].url)
            /\ Len(out) >= Len(appended)
            /\ SubSeq(out, Len(out) - Len(appended) + 1, Len(out)) = appended
            /\ (pc = "done" =>
                  Len(analysis) = Len(crash_reports) /\ emitted /\ sink = out)

\* a finished run in which analyze raised for a report that was not the last
C3_Witness ==
    /\ pc = "done"
    /\ emitted
    /\ \E k \in 1..Len(analysis) :
         /\ analysis[k].raised
         /\ k < Len(analysis)
         /\ Len(analysis[k + 1].lines) > 1

\* C4: a failed fetch of a link (a non-success status or a transport failure)
\* never aborts the run.
C4_FailedFetchNeverAborts == fetched # <<>> => pc # "crashed"

\* C5: when the run ends, every line appended to _out has been handed to the
\* sink, in order, also when no crash report was located.
C5_AllOutputReachesSink == pc = "done" => sink = out

\* C6: within one run each distinct URL is fetched at most once and gives at most
\* one crash report, also when it occurs in two sections.
C6_EachUrlFetchedOnce ==
    /\ \A i, j \in 1..Len(fetched) : fetched[i].url = fetched[j].url => i = j
    /\ \A i, j \in 1..Len(crash_reports) :
         crash_reports[i].url = crash_reports[j].url => i = j

(***************************************************************************)
(* Claims about Helper.analyze (specification SpecAnalyze).                *)
(***************************************************************************)
Occurrences(lines, line) == Cardinality({i \in 1..Len(lines) : lines[i] = line})

EarlyLines(cr) ==
    <<AnalysisHeader(cr.url)>>
    \o (IF ContentHas(cr.content, {ISMODDED}) THEN <<>> ELSE <<TRUNCATED_WARNING>>)

\* C2: when the first two lines of the stack trace are the NPE signature, the
\* lines of the report are the header, the truncation warning if the report is
\* truncated, and the NPE remark, and the resolver is not called; when they are
\* not and a line holds 'ChunkIOProvider', the same with the corruption remark.
C2_TerminalRulesStop ==
    \A k \in 1..Len(analysis) :
        LET cr == crash_reports[k]
            trace == main_stack_trace(cr.content)
            a == analysis[k]
        IN  /\ IsNpeSignature(trace) =>
                 /\ a.lines = EarlyLines(cr) \o <<NPE_REMARK>>
                 /\ ~a.resolved /\ ~a.raised
            /\ (~IsNpeSignature(trace) /\ HasChunkIO(trace)) =>
                 /\ a.lines = EarlyLines(cr) \o <<CORRUPTION_REMARK>>
                 /\ ~a.resolved /\ ~a.raised

\* a truncated report on which both terminal rules match has been analysed
C2_Witness ==
    /\ pc = "done"
    /\ \E k \in 1..Len(analysis) :
         LET trace == main_stack_trace(crash_reports[k].content)
         IN  /\ IsNpeSignature(trace)
             /\ HasChunkIO(trace)
             /\ truncated(crash_reports[k].content)
             /\ Len(analysis[k].lines) = 3

\* C7: for a report on which no terminal rule fires, analyze raises nothing and
\* appends exactly one stack-trace block, also when the stack trace is empty.
C7_StackBlockAlways ==
    \A k \in 1..Len(analysis) :
        LET trace == main_stack_trace(crash_reports[k].content)
        IN  (~IsNpeSignature(trace) /\ ~HasChunkIO(trace)) =>
                /\ ~analysis[k].raised
                /\ Occurrences(analysis[k].lines, StackBlock(trace)) = 1

ReportedFiles(content) ==
    {mod_list(content)[i].filename : i \in 1..Len(mod_list(content))}

Modern(content, bySide) ==
    IF bySide THEN side(content) \in {"CLIENT_JAVA9", "SERVER_JAVA9"}
    ELSE is_recent_java(content)

\* the Missing-mods block of an analysis that reached the diff lists, once and
\* as '* <f>', exactly the official filenames f absent from the reported set that
\* hold neither 'healer' nor 'codechickenlib' and, if they hold 'lwjgl3ify',
\* belong to a report that is modern: by its detected side, or by its Java
\* version
MissingBlockIs(bySide) ==
    \A k \in 1..Len(analysis) :
        LET content == crash_reports[k].content
            a == analysis[k]
            listed == {f \in a.base \ ReportedFiles(content) :
                         /\ f \notin HealerFiles \cup CodeChickenLibFiles
                         /\ f \in Lwjgl3ifyFiles => Modern(content, bySide)}
        IN  (a.resolved /\ a.base # {}) =>
              /\ \A f \in OfficialFiles \cup ReportedFiles(content) :
                   Occurrences(a.lines, "* " \o f) = IF f \in listed THEN 1 ELSE 0
              /\ Occurrences(a.lines, MISSING_OPEN)
                   = IF a.base \ ReportedFiles(content) = {} THEN 0 ELSE 1


\* C8, as claimed: a missing 'lwjgl3ify' file is listed only when the detected
\* side is CLIENT_JAVA9 or SERVER_JAVA9.
C8_MissingBlockBySide == MissingBlockIs(TRUE)

\* C8, as amended: a missing 'lwjgl3ify' file is listed only when the Java
\* version of the report is recent (present, and not starting with '1.'),
\* whatever the detected side.
C8_MissingBlockByJava == MissingBlockIs(FALSE)

\* the diff ran for a modern-Java report with a mod table that misses the
\* lwjgl3ify, healer and CodeChickenLib files, and listed the lwjgl3ify file
C8_Witness ==
    /\ pc = "done"
    /\ \E k \in 1..Len(analysis) :
         LET a == analysis[k]
             missing == a.base \ ReportedFiles(crash_reports[k].content)
         IN  /\ a.resolved
             /\ Lwjgl3ifyFiles \cup HealerFiles \cup CodeChickenLibFiles \subseteq missing
             /\ ReportedFiles(crash_reports[k].content) # {}
             /\ is_recent_java(crash_reports[k].content)
             /\ Occurrences(a.lines, "* lwjgl3ify-1.5.7.jar") = 1

(***************************************************************************)
(* Claims about one CrashReport (specification SpecReport).                *)
(***************************************************************************)
\* the records the claim describes: of the lines after the first line with
\* 'States', up to the first of them that fails the grammar
ExpectedModList(content) ==
    LET heads == {i \in 1..Len(content) : HasStates(content[i])}
        first == CHOOSE i \in heads : \A j \in heads : i <= j
        rest == SubSeq(content, first + 1, Len(content))
        bad == {i \in 1..Len(rest) : ~MatchesGrammar(rest[i])}
        n == IF bad = {} THEN Len(rest)
             ELSE (CHOOSE i \in bad : \A j \in bad : i <= j) - 1
    IN  IF heads = {} THEN <<>>
        ELSE Flatten([i \in 1..n |-> parse(rest[i]).rec])

\* C9: mod_list is, in order, the records of all lines after the first line
\* containing 'States' and before the first later line that fails the grammar;
\* the only matching lines in that range without a record are those that parse
\* to no record.
C9_ModListIsTablePrefix ==
    (~r_lazy /\ r_views.mod_list # <<>>) =>
        r_views.mod_list[1] = ExpectedModList(r_content[1])

\* C10: the fetch function of a lazy CrashReport is called at most once, and
\* every access to the content returns the same text.
C10_FetchedAtMostOnce ==
    r_lazy => (r_fetches <= 1 /\ Cardinality(r_returned) <= 1)

=============================================================================
